---- MODULE Spec2Model ----
(***************************************************************************)
(* Model of src/cli/handlers.ts of solita: the two IDL-generation          *)
(* orchestrators handleAnchor (manifest-strict) and handleShank -> handle  *)
(* (installer-driven), the version probe getAnchorCommandVersion, the      *)
(* manifest resolver getAnchorVersionInToml / parseCargoToml and the       *)
(* default confirmation hook confirmAutoMessageLog.                        *)
(*                                                                         *)
(* JavaScript primitive values (strings, numbers, booleans, null,          *)
(* undefined) are modelled by TLA+ strings, so that values of different   *)
(* JavaScript types can always be compared. Free text (messages, process   *)
(* output) is a sequence of tokens; `includes` and the regular expression  *)
(* of the probe work on the tokens.                                        *)
(***************************************************************************)
EXTENDS Integers, Sequences, FiniteSets, TLC

VARIABLES
    config,             \* the SolitaConfig of the runs (immutable)
    prettierConfig,     \* the optional PrettierOptions argument
    cargoTomlFile,      \* environment: the content of <programDir>/Cargo.toml
    shankBin,           \* environment: version of the installed shank binary
    manifestEdited,     \* environment: the manifest was edited between runs
    run,                \* number of orchestration runs started
    pc,                 \* position of the async function handleAnchor / handle
    outcome,            \* the promise handleAnchor / handleShank returned
    anchorCliVersion,   \* local of handleAnchor (line 29)
    cargoAnchorVersion, \* local of handleAnchor (line 30)
    rustbin,            \* the RustbinMatchReturn destructured at line 170
    probeChild,         \* the `anchor --version` child process
    stdoutData,         \* local of getAnchorCommandVersion (line 71)
    probePromise,       \* the promise getAnchorCommandVersion returned
    probeCode,          \* code the probe's 'close' reported
    rustbinPhase,       \* progress of the rustbinMatch call
    rustbinPromise,     \* the promise rustbinMatch returned
    confirmCalls,       \* invocations of the confirmation hook: <<args, result>>
    genChild,           \* the IDL-generation child process
    spawnErrno,         \* errno of the 'error' event a child of this run emitted
    exitCode,           \* exit code the generation child reported
    genStdio,           \* the generation child's stdout / stderr pipes
    genWrote,           \* output of the generation child was passed through
    exitHandler,        \* position of the async 'exit' listener
    idl,                \* local of the 'exit' listener (line 46 / 188)
    trace,              \* external calls of this run, in order
    prevTrace,          \* external calls of the previous run
    prevOutcome         \* outcome of the previous run

vars == <<config, prettierConfig, cargoTomlFile, shankBin, manifestEdited, run,
          pc, outcome, anchorCliVersion, cargoAnchorVersion, rustbin,
          probeChild, stdoutData, probePromise, rustbinPhase, rustbinPromise,
          confirmCalls, genChild, spawnErrno, exitCode, exitHandler, idl,
          trace, prevTrace, prevOutcome, probeCode, genStdio, genWrote>>

----------------------------------------------------------------------------
(* Bounds *)

MaxRuns == 2
MaxChunks == 2

----------------------------------------------------------------------------
(* JavaScript values *)

NULL == "null"
UNDEFINED == "undefined"
UNSET == "<unset>"

Versions == {"0.26.0", "0.27.0"}

IsNullish(v) == v = NULL \/ v = UNDEFINED

\* String.prototype.includes on a tokenised text
Includes(text, tok) == \E i \in 1..Len(text) : text[i] = tok

\* Thrown / rejected values: Error objects and bare strings
NoValue == [type |-> "none", code |-> "", msg |-> <<>>]
ErrorOf(msg) == [type |-> "Error", code |-> "", msg |-> msg]
StringOf(s) == [type |-> "string", code |-> "", msg |-> <<s>>]

\* The error child_process emits when the operating system refuses the spawn
SpawnErrnos == {"ENOENT", "EACCES", "EAGAIN"}
ErrnoException(errno, file) ==
    [type |-> "Error", code |-> errno, msg |-> <<"spawn ", file, " ", errno>>]

\* Promises settle once: resolve / reject of a settled promise is ignored
Pending == [state |-> "pending", value |-> NoValue]
Resolve(p, v) == IF p.state = "pending" THEN [state |-> "resolved", value |-> v] ELSE p
Reject(p, e) == IF p.state = "pending" THEN [state |-> "rejected", value |-> e] ELSE p

----------------------------------------------------------------------------
(* Inputs: the configuration (types.ts, destructured at lines 21, 136, 168) *)

Generators == {"anchor", "shank"}
PrettierConfigs == {UNDEFINED, "prettierrc"}

ConfigOf(generator, sdkDir, remainingAccounts) ==
    [idlGenerator |-> generator,
     programName |-> "prog",
     idlDir |-> "idl",
     programDir |-> "program",
     sdkDir |-> sdkDir,
     binaryInstallDir |-> ".crates",
     typeAliases |-> "aliases",
     serializers |-> "serializers",
     anchorRemainingAccounts |-> remainingAccounts]

Configs ==
    {ConfigOf(g, "sdk", "true") : g \in Generators}
    \cup {ConfigOf(g, "src/generated", UNDEFINED) : g \in Generators}

\* path.join(a, b), as the token sequence of the joined path
PathJoin(a, b) == <<a, "/", b>>

\* text contains the token sequence sub
ContainsSeq(text, sub) ==
    \E i \in 0..(Len(text) - Len(sub)) :
        \A j \in 1..Len(sub) : text[i + j] = sub[j]

----------------------------------------------------------------------------
(* Environment: the manifest. A dependency entry is a bare string or a     *)
(* table (CargoToml, lines 111-113); a table is a set of <<key, value>>.   *)

Absent == [type |-> "absent", str |-> "", tbl |-> {}]
Str(v) == [type |-> "string", str |-> v, tbl |-> {}]
Tbl(fields) == [type |-> "table", str |-> "", tbl |-> fields]

\* table.key in JavaScript: undefined when the key is missing
Field(tbl, key) ==
    IF \E p \in tbl : p[1] = key
    THEN (CHOOSE p \in tbl : p[1] = key)[2]
    ELSE UNDEFINED

DepNames == {"anchor-lang", "shank"}

AnchorEntries ==
    {Absent}
    \cup {Str(v) : v \in Versions}
    \cup {Tbl({<<"version", v>>}) : v \in Versions}
    \cup {Tbl({<<"version", v>>, <<"features", "cpi">>}) : v \in Versions}
    \cup {Tbl({<<"features", "cpi">>})}

ShankEntries == {Absent, Str("0.27.0"), Tbl({<<"version", "0.26.0">>})}

NoDeps == [d \in DepNames |-> Absent]

TomlOf(a, s) ==
    [kind |-> "toml", hasDeps |-> TRUE,
     deps |-> [d \in DepNames |-> IF d = "anchor-lang" THEN a ELSE s]]

Unreadable == [kind |-> "unreadable", hasDeps |-> FALSE, deps |-> NoDeps]
Malformed == [kind |-> "malformed", hasDeps |-> FALSE, deps |-> NoDeps]
NoDependencies == [kind |-> "toml", hasDeps |-> FALSE, deps |-> NoDeps]

\* The manifests of a project of the given generator: every encoding of
\* the generator's own library, next to a few of the other dependency
ManifestFiles(generator) ==
    {Unreadable, Malformed, NoDependencies}
    \cup (IF generator = "anchor"
          THEN {TomlOf(a, s) : a \in AnchorEntries, s \in ShankEntries}
          ELSE {TomlOf(a, s) : a \in {Absent, Str("0.27.0")}, s \in ShankEntries})

\* What an edit between two runs leaves in the manifest
EditedManifests ==
    {Unreadable} \cup {TomlOf(Str(v), Str(v)) : v \in Versions}

----------------------------------------------------------------------------
(* Manifest resolution *)

Ok(v) == [ok |-> TRUE, value |-> v, err |-> NoValue]
Throw(e) == [ok |-> FALSE, value |-> UNSET, err |-> e]

\* parseCargoToml (lines 115-130): fs.readFile, then toml's parse. Both
\* failures are logged and rethrown.
parseCargoToml(fullPath) ==
    IF cargoTomlFile.kind = "unreadable"
    THEN Throw([type |-> "Error", code |-> "ENOENT",
                msg |-> <<"ENOENT: no such file or directory, open ">> \o fullPath])
    ELSE IF cargoTomlFile.kind = "malformed"
    THEN Throw([type |-> "SyntaxError", code |-> "", msg |-> <<"Syntax error">>])
    ELSE Ok([hasDeps |-> cargoTomlFile.hasDeps, deps |-> cargoTomlFile.deps])

\* The key of the lookup at line 104
DependencyKey == "anchor-lang"

\* The error of lines 105-107
MissingDependencyError(cargoToml) ==
    ErrorOf(<<"anchor_lang", " not found as dependency in ">> \o cargoToml)

\* The value returned at line 108
VersionOfEntry_TableItself(libVersion) ==
    IF libVersion.type = "string" THEN libVersion.str ELSE "[object Object]"

VersionOfEntry(libVersion) ==
    IF libVersion.type = "string"
    THEN libVersion.str
    ELSE Field(libVersion.tbl, "version")

\* getAnchorVersionInToml (lines 102-109)
getAnchorVersionInToml(cargoToml) ==
    LET r == parseCargoToml(cargoToml) IN
    IF ~r.ok THEN Throw(r.err)
    ELSE IF ~r.value.hasDeps
    THEN Throw([type |-> "TypeError", code |-> "",
                msg |-> <<"Cannot read properties of undefined (reading '",
                          DependencyKey, "')">>])
    ELSE LET libVersion == r.value.deps[DependencyKey] IN
         IF libVersion.type = "absent"
         THEN Throw(MissingDependencyError(cargoToml))
         ELSE Ok(VersionOfEntry(libVersion))

----------------------------------------------------------------------------
(* The version probe *)

Tokens == {"anchor-cli ", "0.26.0", "0.27.0", "junk"}
ExitCodes == {"0", "1", NULL}

\* stdoutData.match(/anchor-cli (\d+\.\d+\.\d+)/) (lines 88-89): the first
\* place where the tool name is followed by an x.y.z; NULL when none is.
MatchPositions(text) ==
    {i \in 1..(Len(text) - 1) : text[i] = "anchor-cli " /\ text[i + 1] \in Versions}

MatchVersion(text) ==
    IF MatchPositions(text) = {}
    THEN NULL
    ELSE LET i == CHOOSE k \in MatchPositions(text) :
                      \A m \in MatchPositions(text) : k <= m
         IN text[i + 1]

\* The 'error' listener of the probe (lines 77-84)
OnProbeError_Generic(p, error) == Reject(p, error)

OnProbeError(p, error) ==
    IF error.type = "Error" /\ Includes(error.msg, "ENOENT")
    THEN Reject(p, StringOf("Anchor is not installed!"))
    ELSE Reject(p, error)

\* The 'close' listener of the probe (lines 86-98)
OnProbeClose_AnyCode(p, code, text) ==
    IF MatchVersion(text) = NULL
    THEN Reject(p, StringOf("Anchor version matching failed"))
    ELSE Resolve(p, StringOf(MatchVersion(text)))

OnProbeClose(p, code, text) ==
    IF code = "0"
    THEN IF MatchVersion(text) = NULL
         THEN Reject(p, StringOf("Anchor version matching failed"))
         ELSE Resolve(p, StringOf(MatchVersion(text)))
    ELSE Reject(p, ErrorOf(<<"Process exited with code ", code>>))

----------------------------------------------------------------------------
(* handleAnchor's version comparison *)

\* line 32
VersionMismatch_Never(cli, cargo) == FALSE

VersionMismatch_IgnoreUndefined(cli, cargo) == cargo # UNDEFINED /\ cli # cargo

VersionMismatch(cli, cargo) == cli # cargo

\* lines 33-35
MismatchError(cli, cargo) ==
    ErrorOf(<<"Anchor version mismatch! Selected anchor cli: ", cli,
              ", in Cargo.toml: ", cargo>>)

----------------------------------------------------------------------------
(* handle's check of the installer's answer *)

\* line 173
BinVersionMissing_Never(binVersion) == FALSE

BinVersionMissing(binVersion) == IsNullish(binVersion)

\* lines 174-177
InstallResolutionError(binaryName) ==
    ErrorOf(<<"rustbin was unable to determine installed version ", binaryName,
              ", it may not have been installed correctly.">>)

\* rustbinConfig of handleShank (lines 141-148)
RustbinConfigOf(cfg) ==
    [rootDir |-> cfg.binaryInstallDir,
     binaryName |-> "shank",
     binaryCrateName |-> "shank-cli",
     libName |-> "shank",
     cargoToml |-> PathJoin(cfg.programDir, "Cargo.toml"),
     dryRun |-> "false"]

\* confirmAutoMessageLog (lines 205-221): logs, then Promise.resolve(true)
confirmAutoMessageLog_DenyFresh(args) ==
    IF IsNullish(args.binVersion) THEN "false" ELSE "true"

confirmAutoMessageLog(args) == "true"

----------------------------------------------------------------------------
(* The listeners of the generation child and the collaborator calls *)

\* The 'error' listener (lines 40-43, 182-185): logError, reject(err)
OnSpawnError_Generic(p, err) ==
    Reject(p, ErrorOf(<<"idl generation failed">>))

OnSpawnError(p, err) == Reject(p, err)

\* spawn arguments (lines 23-26, 39 and 137-140, 181)
AnchorSpawn(cfg) ==
    [fn |-> "spawn",
     args |-> <<"anchor", <<"build", "--idl", cfg.idlDir>>, cfg.programDir>>]

ShankSpawn(cfg, fullPathToBinary) ==
    [fn |-> "spawn",
     args |-> <<fullPathToBinary,
                <<"idl", "--out-dir", cfg.idlDir, "--crate-root", cfg.programDir>>,
                cfg.programDir>>]

\* enhanceIdl(config, binVersion, libVersion) (lines 46-50, 188)
EnhanceCall(cfg, binVersion, libVersion) ==
    [fn |-> "enhanceIdl", args |-> <<cfg, binVersion, libVersion>>]

\* what enhanceIdl resolves to: the IDL of the program, stamped with the versions
EnhancedIdl(cfg, binVersion, libVersion) ==
    <<"idl", cfg.programName, binVersion, libVersion>>

\* generateTypeScriptSDK(...) (lines 51-58, 189-196)
GenerateCall_IdlDir(theIdl, cfg, prettier, remainingAccounts) ==
    [fn |-> "generateTypeScriptSDK",
     args |-> <<theIdl, cfg.idlDir, prettier, cfg.typeAliases, cfg.serializers,
                remainingAccounts>>]

GenerateCall(theIdl, cfg, prettier, remainingAccounts) ==
    [fn |-> "generateTypeScriptSDK",
     args |-> <<theIdl, cfg.sdkDir, prettier, cfg.typeAliases, cfg.serializers,
                remainingAccounts>>]

\* the anchorRemainingAccounts argument: config's flag in handleAnchor
\* (lines 21, 57), the constant false handleShank passes (line 156)
RemainingAccountsArg_FromConfig(cfg) == cfg.anchorRemainingAccounts

RemainingAccountsArg(cfg) ==
    IF cfg.idlGenerator = "anchor" THEN cfg.anchorRemainingAccounts ELSE "false"

----------------------------------------------------------------------------
(* State *)

NoRustbin == [fullPathToBinary |-> UNSET, binVersion |-> UNSET, libVersion |-> UNSET]

CargoTomlPath == PathJoin(config.programDir, "Cargo.toml")

\* The locals and children of one run, as they are when the handler is entered
FreshRun ==
    /\ outcome = Pending
    /\ anchorCliVersion = UNSET
    /\ cargoAnchorVersion = UNSET
    /\ rustbin = NoRustbin
    /\ probeChild = "none"
    /\ stdoutData = <<>>
    /\ probePromise = Pending
    /\ rustbinPhase = "none"
    /\ rustbinPromise = Pending
    /\ confirmCalls = <<>>
    /\ genChild = "none"
    /\ spawnErrno = UNSET
    /\ exitCode = UNSET
    /\ probeCode = UNSET
    /\ genStdio = "none"
    /\ genWrote = FALSE
    /\ exitHandler = "none"
    /\ idl = UNSET
    /\ trace = <<>>

Init ==
    /\ config \in Configs
    /\ prettierConfig \in PrettierConfigs
    /\ cargoTomlFile \in ManifestFiles(config.idlGenerator)
    /\ shankBin \in (IF config.idlGenerator = "shank" THEN Versions \cup {NULL} ELSE {NULL})
    /\ manifestEdited = FALSE
    /\ run = 0
    /\ pc = "Idle"
    /\ FreshRun
    /\ prevTrace = <<>>
    /\ prevOutcome = Pending

inputs == <<config, prettierConfig>>
environment == <<cargoTomlFile, shankBin, manifestEdited>>
history == <<prevTrace, prevOutcome>>
anchorLocals == <<anchorCliVersion, cargoAnchorVersion>>
probeVars == <<probeChild, stdoutData, probePromise>>
rustbinVars == <<rustbin, rustbinPhase, rustbinPromise, confirmCalls>>
childVars == <<genChild, spawnErrno, exitCode>>
listenerVars == <<exitHandler, idl>>
streamVars == <<genStdio, genWrote>>

----------------------------------------------------------------------------
(* handleAnchor *)

\* a handler that keeps the probed version in module state and skips the
\* probe when it is entered again
StartAnchor_Cached ==
    /\ pc = "Idle"
    /\ config.idlGenerator = "anchor"
    /\ run < MaxRuns
    /\ run' = run + 1
    /\ IF run = 0
       THEN /\ pc' = "AwaitProbe"
            /\ probeChild' = "running"
            /\ trace' = Append(trace, [fn |-> "spawn",
                                       args |-> <<"anchor", <<"--version">>, UNDEFINED>>])
            /\ UNCHANGED anchorCliVersion
       ELSE /\ pc' = "AwaitToml"
            /\ \E cached \in Versions : anchorCliVersion' = cached
            /\ trace' = Append(trace, [fn |-> "readFile",
                                       args |-> <<CargoTomlPath, "utf8">>])
            /\ UNCHANGED probeChild
    /\ UNCHANGED <<probeCode, streamVars, inputs, environment, history, outcome, cargoAnchorVersion,
                   stdoutData, probePromise, rustbinVars, childVars, listenerVars>>

\* handleAnchor is entered and awaits getAnchorCommandVersion, which spawns
\* `anchor --version` (lines 17-29, 67-71)
StartAnchor ==
    /\ pc = "Idle"
    /\ config.idlGenerator = "anchor"
    /\ run < MaxRuns
    /\ run' = run + 1
    /\ pc' = "AwaitProbe"
    /\ probeChild' = "running"
    /\ trace' = Append(trace, [fn |-> "spawn",
                               args |-> <<"anchor", <<"--version">>, UNDEFINED>>])
    /\ UNCHANGED <<probeCode, streamVars, inputs, environment, history, outcome, anchorLocals,
                   stdoutData, probePromise, rustbinVars, childVars, listenerVars>>

\* child.stdout 'data' (lines 73-75)
ProbeData ==
    /\ probeChild = "running"
    /\ Len(stdoutData) < MaxChunks
    /\ \E tok \in Tokens : stdoutData' = Append(stdoutData, tok)
    /\ UNCHANGED <<probeCode, streamVars, inputs, environment, history, run, pc, outcome, anchorLocals,
                   probeChild, probePromise, rustbinVars, childVars, listenerVars,
                   trace>>

\* child 'error': the spawn of the probe failed (lines 77-84)
ProbeError ==
    /\ probeChild = "running"
    /\ stdoutData = <<>>
    /\ \E errno \in SpawnErrnos :
          /\ spawnErrno' = errno
          /\ probePromise' = OnProbeError(probePromise, ErrnoException(errno, "anchor"))
    /\ probeChild' = "errored"
    /\ UNCHANGED <<probeCode, streamVars, inputs, environment, history, run, pc, outcome, anchorLocals,
                   stdoutData, rustbinVars, genChild, exitCode, listenerVars, trace>>

\* child 'close' (lines 86-98); after a failed spawn the code is the
\* negative errno. stdoutData is not read after this listener.
ProbeClose ==
    /\ probeChild \in {"running", "errored"}
    /\ \E code \in (IF probeChild = "errored" THEN {"-2"} ELSE ExitCodes) :
          /\ probeCode' = code
          /\ probePromise' = OnProbeClose(probePromise, code, stdoutData)
    /\ probeChild' = "closed"
    /\ stdoutData' = <<>>
    /\ UNCHANGED <<streamVars, inputs, environment, history, run, pc, outcome, anchorLocals,
                   rustbinVars, childVars, listenerVars, trace>>

\* the await of line 29 resumes; on success getAnchorVersionInToml is
\* called and parseCargoToml starts reading the manifest (lines 29-30, 103, 118)
AnchorAfterProbe ==
    /\ pc = "AwaitProbe"
    /\ probePromise.state # "pending"
    /\ IF probePromise.state = "rejected"
       THEN /\ outcome' = Reject(outcome, probePromise.value)
            /\ pc' = "Threw"
            /\ UNCHANGED <<anchorCliVersion, trace>>
       ELSE /\ anchorCliVersion' = probePromise.value.msg[1]
            /\ pc' = "AwaitToml"
            /\ trace' = Append(trace, [fn |-> "readFile",
                                       args |-> <<CargoTomlPath, "utf8">>])
            /\ UNCHANGED outcome
    /\ UNCHANGED <<probeCode, streamVars, inputs, environment, history, run, cargoAnchorVersion,
                   probeVars, rustbinVars, childVars, listenerVars>>

\* the await of line 30 resumes: the manifest's version, the comparison
\* and, when the versions agree, the spawn of `anchor build` (lines 30-39)
AnchorAfterToml ==
    /\ pc = "AwaitToml"
    /\ LET r == getAnchorVersionInToml(CargoTomlPath) IN
       IF ~r.ok
       THEN /\ outcome' = Reject(outcome, r.err)
            /\ pc' = "Threw"
            /\ UNCHANGED <<cargoAnchorVersion, genChild, genStdio, trace>>
       ELSE /\ cargoAnchorVersion' = r.value
            /\ IF VersionMismatch(anchorCliVersion, r.value)
               THEN /\ outcome' = Reject(outcome, MismatchError(anchorCliVersion, r.value))
                    /\ pc' = "Threw"
                    /\ UNCHANGED <<genChild, genStdio, trace>>
               ELSE /\ pc' = "InPromise"
                    /\ genChild' = "running"
                    /\ genStdio' = "open"
                    /\ trace' = Append(trace, AnchorSpawn(config))
                    /\ UNCHANGED outcome
    /\ UNCHANGED <<probeCode, genWrote, inputs, environment, history, run, anchorCliVersion, probeVars,
                   rustbinVars, spawnErrno, exitCode, listenerVars>>

----------------------------------------------------------------------------
(* handleShank -> handle, and the installer it delegates to *)

\* handleShank builds rustbinConfig and calls handle, which awaits
\* rustbinMatch(rustbinConfig, confirmAutoMessageLog) (lines 132-171)
StartShank ==
    /\ pc = "Idle"
    /\ config.idlGenerator = "shank"
    /\ run < MaxRuns
    /\ run' = run + 1
    /\ pc' = "AwaitRustbin"
    /\ rustbinPhase' = "checking"
    /\ trace' = Append(trace, [fn |-> "rustbinMatch",
                               args |-> <<RustbinConfigOf(config),
                                          "confirmAutoMessageLog">>])
    /\ UNCHANGED <<probeCode, streamVars, inputs, environment, history, outcome, anchorLocals, probeVars,
                   rustbin, rustbinPromise, confirmCalls, childVars, listenerVars>>

\* The installer's view of the manifest: the version its library declares
RustbinLibVersion(rustbinConfig) ==
    LET r == parseCargoToml(rustbinConfig.cargoToml) IN
    IF ~r.ok THEN Throw(r.err)
    ELSE IF ~r.value.hasDeps \/ r.value.deps[rustbinConfig.libName].type = "absent"
    THEN Throw(ErrorOf(<<rustbinConfig.libName, " not found as dependency in ">>
                       \o rustbinConfig.cargoToml))
    ELSE LET e == r.value.deps[rustbinConfig.libName] IN
         Ok(IF e.type = "string" THEN e.str ELSE Field(e.tbl, "version"))

\* The installer determines the installed and the required version and asks
\* the confirmation hook
RustbinConfirm ==
    /\ rustbinPhase = "checking"
    /\ LET rc == RustbinConfigOf(config)
           lib == RustbinLibVersion(rc)
       IN IF ~lib.ok
          THEN /\ rustbinPromise' = Reject(rustbinPromise, lib.err)
               /\ rustbinPhase' = "done"
               /\ UNCHANGED confirmCalls
          ELSE LET args == [binaryName |-> rc.binaryName,
                            libVersion |-> lib.value,
                            libName |-> rc.libName,
                            binVersion |-> shankBin,
                            fullPathToBinary |-> PathJoin(rc.rootDir, rc.binaryName)]
               IN /\ confirmCalls' = Append(confirmCalls,
                                            <<args, confirmAutoMessageLog(args)>>)
                  /\ rustbinPhase' = "confirmed"
                  /\ UNCHANGED rustbinPromise
    /\ UNCHANGED <<probeCode, streamVars, inputs, environment, history, run, pc, outcome, anchorLocals,
                   probeVars, rustbin, childVars, listenerVars, trace>>

\* On approval the installer installs and probes the installed binary (the
\* probe may find no version); on denial it answers with what is on disk
RustbinFinish ==
    /\ rustbinPhase = "confirmed"
    /\ LET call == confirmCalls[Len(confirmCalls)]
           args == call[1]
       IN \E installed \in (IF call[2] = "true"
                            THEN {args.libVersion, NULL}
                            ELSE {shankBin}) :
             /\ shankBin' = installed
             /\ rustbin' = [fullPathToBinary |-> args.fullPathToBinary,
                            binVersion |-> installed,
                            libVersion |-> args.libVersion]
    /\ rustbinPromise' = Resolve(rustbinPromise, NoValue)
    /\ rustbinPhase' = "done"
    /\ UNCHANGED <<probeCode, streamVars, inputs, cargoTomlFile, manifestEdited, history, run, pc, outcome,
                   anchorLocals, probeVars, confirmCalls, childVars, listenerVars,
                   trace>>

\* the await of line 171 resumes: the null check and the spawn of the
\* installed binary (lines 170-181)
AfterRustbin ==
    /\ pc = "AwaitRustbin"
    /\ rustbinPromise.state # "pending"
    /\ IF rustbinPromise.state = "rejected"
       THEN /\ outcome' = Reject(outcome, rustbinPromise.value)
            /\ pc' = "Threw"
            /\ UNCHANGED <<genChild, genStdio, trace>>
       ELSE IF BinVersionMissing(rustbin.binVersion)
       THEN /\ outcome' = Reject(outcome,
                                 InstallResolutionError(RustbinConfigOf(config).binaryName))
            /\ pc' = "Threw"
            /\ UNCHANGED <<genChild, genStdio, trace>>
       ELSE /\ pc' = "InPromise"
            /\ genChild' = "running"
            /\ genStdio' = "open"
            /\ trace' = Append(trace, ShankSpawn(config, rustbin.fullPathToBinary))
            /\ UNCHANGED outcome
    /\ UNCHANGED <<probeCode, genWrote, inputs, environment, history, run, anchorLocals, probeVars,
                   rustbinVars, spawnErrno, exitCode, listenerVars>>

----------------------------------------------------------------------------
(* The generation child and its listeners (lines 38-64, 180-202) *)

\* the executable the generation child runs (lines 39, 181)
SpawnFile == IF config.idlGenerator = "anchor" THEN "anchor" ELSE "shank"

\* the versions handed to enhanceIdl (lines 48-49, 188)
BinVersionArg ==
    IF config.idlGenerator = "anchor" THEN anchorCliVersion ELSE rustbin.binVersion

LibVersionArg ==
    IF config.idlGenerator = "anchor" THEN cargoAnchorVersion ELSE rustbin.libVersion

\* 'error' of the generation child (lines 40-43, 182-185)
SpawnErrorEvent ==
    /\ genChild = "running"
    /\ \E errno \in SpawnErrnos :
          /\ spawnErrno' = errno
          /\ outcome' = OnSpawnError(outcome, ErrnoException(errno, SpawnFile))
    /\ genChild' = "errored"
    /\ UNCHANGED <<probeCode, streamVars, inputs, environment, history, run, pc, anchorLocals, probeVars,
                   rustbinVars, exitCode, listenerVars, trace>>

\* a listener that looks at the exit code and rejects on a failure
ExitEvent_CheckCode ==
    /\ genChild \in {"running", "errored"}
    /\ genStdio = "open"
    /\ \E code \in ExitCodes :
          /\ exitCode' = code
          /\ IF code = "0"
             THEN /\ exitHandler' = "enriching"
                  /\ trace' = Append(trace, EnhanceCall(config, BinVersionArg, LibVersionArg))
                  /\ UNCHANGED outcome
             ELSE /\ exitHandler' = "rejected"
                  /\ outcome' = Reject(outcome, ErrorOf(<<"Process exited with code ", code>>))
                  /\ UNCHANGED trace
    /\ genChild' = "exited"
    /\ UNCHANGED <<probeCode, streamVars, inputs, environment, history, run, pc, anchorLocals, probeVars,
                   rustbinVars, spawnErrno, idl>>

\* a listener that does not await enhanceIdl before it calls
\* generateTypeScriptSDK
ExitEvent_NoAwait ==
    /\ genChild \in {"running", "errored"}
    /\ genStdio = "open"
    /\ \E code \in ExitCodes : exitCode' = code
    /\ genChild' = "exited"
    /\ exitHandler' = "generating"
    /\ trace' = trace \o <<EnhanceCall(config, BinVersionArg, LibVersionArg),
                            GenerateCall(idl, config, prettierConfig,
                                         RemainingAccountsArg(config))>>
    /\ UNCHANGED <<probeCode, streamVars, inputs, environment, history, run, pc,
                   outcome, anchorLocals, probeVars, rustbinVars, spawnErrno, idl>>

\* 'exit' of the generation child: the async listener logs and calls
\* enhanceIdl (lines 44-50, 186-188). The listener takes no argument: the
\* exit code is not read. child_process may emit 'exit' after 'error', and
\* nothing in the listener looks at what 'error' did.
ExitEvent ==
    /\ genChild \in {"running", "errored"}
    /\ genStdio = "open"
    /\ \E code \in ExitCodes : exitCode' = code
    /\ genChild' = "exited"
    /\ exitHandler' = "enriching"
    /\ trace' = Append(trace, EnhanceCall(config, BinVersionArg, LibVersionArg))
    /\ UNCHANGED <<probeCode, streamVars, inputs, environment, history, run, pc, outcome, anchorLocals,
                   probeVars, rustbinVars, spawnErrno, idl>>

\* 'data' of the generation child's stdout / stderr: the chunk is written
\* to the caller's own stream (lines 62-63, 200-201). The pipes outlive the
\* 'exit' event: data can arrive until they close.
GenData ==
    /\ genStdio = "open"
    /\ genChild \in {"running", "exited"}
    /\ genWrote' = TRUE
    /\ UNCHANGED <<inputs, environment, history, run, pc, outcome, anchorLocals,
                   probeVars, probeCode, rustbinVars, childVars, genStdio,
                   listenerVars, trace>>

\* the pipes of a child that has ended close ('close', which nothing
\* listens to)
GenClose ==
    /\ genStdio = "open"
    /\ genChild \in {"exited", "errored"}
    /\ genStdio' = "closed"
    /\ UNCHANGED <<inputs, environment, history, run, pc, outcome, anchorLocals,
                   probeVars, probeCode, rustbinVars, childVars, genWrote,
                   listenerVars, trace>>

\* a listener that does not await generateTypeScriptSDK before resolve()
EnrichSettles_ResolveEarly ==
    /\ exitHandler = "enriching"
    /\ \/ /\ idl' = EnhancedIdl(config, BinVersionArg, LibVersionArg)
          /\ exitHandler' = "generating"
          /\ trace' = Append(trace, GenerateCall(idl', config, prettierConfig,
                                                 RemainingAccountsArg(config)))
          /\ outcome' = Resolve(outcome, NoValue)
       \/ /\ exitHandler' = "enrichThrew"
          /\ UNCHANGED <<idl, trace, outcome>>
    /\ UNCHANGED <<probeCode, streamVars, inputs, environment, history, run, pc,
                   anchorLocals, probeVars, rustbinVars, childVars>>

\* enhanceIdl settles: with the IDL, and generateTypeScriptSDK is called
\* (lines 46-58, 188-196), or with a failure, which rejects the promise of
\* the async listener and nothing else
EnrichSettles ==
    /\ exitHandler = "enriching"
    /\ \/ /\ idl' = EnhancedIdl(config, BinVersionArg, LibVersionArg)
          /\ exitHandler' = "generating"
          /\ trace' = Append(trace, GenerateCall(idl', config, prettierConfig,
                                                 RemainingAccountsArg(config)))
       \/ /\ exitHandler' = "enrichThrew"
          /\ UNCHANGED <<idl, trace>>
    /\ UNCHANGED <<probeCode, streamVars, inputs, environment, history, run, pc, outcome, anchorLocals,
                   probeVars, rustbinVars, childVars>>

\* generateTypeScriptSDK settles: resolve() (lines 59, 197), or a failure as
\* above
GenerateSettles ==
    /\ exitHandler = "generating"
    /\ \/ /\ exitHandler' = "done"
          /\ outcome' = Resolve(outcome, NoValue)
       \/ /\ exitHandler' = "generateThrew"
          /\ UNCHANGED outcome
    /\ UNCHANGED <<probeCode, streamVars, inputs, environment, history, run, pc, anchorLocals, probeVars,
                   rustbinVars, childVars, idl, trace>>

----------------------------------------------------------------------------
(* The caller and the environment between runs *)

\* The caller, having seen the promise settle, invokes the handler again:
\* every local is fresh (the module keeps no state), and the children and
\* listeners of the finished run are no longer followed
Rerun ==
    /\ pc \in {"Threw", "InPromise"}
    /\ outcome.state # "pending"
    /\ run < MaxRuns
    /\ prevTrace' = trace
    /\ prevOutcome' = outcome
    /\ pc' = "Idle"
    /\ outcome' = Pending
    /\ anchorCliVersion' = UNSET
    /\ cargoAnchorVersion' = UNSET
    /\ rustbin' = NoRustbin
    /\ probeChild' = "none"
    /\ stdoutData' = <<>>
    /\ probePromise' = Pending
    /\ rustbinPhase' = "none"
    /\ rustbinPromise' = Pending
    /\ confirmCalls' = <<>>
    /\ genChild' = "none"
    /\ spawnErrno' = UNSET
    /\ exitCode' = UNSET
    /\ probeCode' = UNSET
    /\ genStdio' = "none"
    /\ genWrote' = FALSE
    /\ exitHandler' = "none"
    /\ idl' = UNSET
    /\ trace' = <<>>
    /\ UNCHANGED <<inputs, environment, run>>

\* Somebody edits the manifest between two runs
EditManifest ==
    /\ pc = "Idle"
    /\ run >= 1
    /\ ~manifestEdited
    /\ \E m \in EditedManifests \ {cargoTomlFile} : cargoTomlFile' = m
    /\ manifestEdited' = TRUE
    /\ UNCHANGED <<probeCode, streamVars, inputs, shankBin, history, run, pc, outcome, anchorLocals,
                   probeVars, rustbinVars, childVars, listenerVars, trace>>

Next ==
    \/ StartAnchor
    \/ ProbeData
    \/ ProbeError
    \/ ProbeClose
    \/ AnchorAfterProbe
    \/ AnchorAfterToml
    \/ StartShank
    \/ RustbinConfirm
    \/ RustbinFinish
    \/ AfterRustbin
    \/ SpawnErrorEvent
    \/ ExitEvent
    \/ GenData
    \/ GenClose
    \/ EnrichSettles
    \/ GenerateSettles
    \/ Rerun
    \/ EditManifest

Spec == Init /\ [][Next]_vars

----------------------------------------------------------------------------
(* Properties *)

\* the places of the calls of fn in this run's trace
CallsOf(fn) == {i \in 1..Len(trace) : trace[i].fn = fn}
NumCalls(fn) == Cardinality(CallsOf(fn))

\* the generation child has been spawned in this run
Spawned == genChild # "none"

NoCollaboratorCall ==
    NumCalls("enhanceIdl") = 0 /\ NumCalls("generateTypeScriptSDK") = 0

\* C1: in handleAnchor, once the probe and the manifest resolution have both
\* succeeded, the generation child is spawned exactly when the probed
\* version equals the manifest's; when they differ the run is rejected with
\* an error whose message holds both versions, and nothing is spawned,
\* enriched or generated.
C1_SpawnIffVersionsMatch ==
    (config.idlGenerator = "anchor" /\ cargoAnchorVersion # UNSET) =>
        /\ Spawned <=> (anchorCliVersion = cargoAnchorVersion)
        /\ (anchorCliVersion # cargoAnchorVersion) =>
              /\ outcome.state = "rejected"
              /\ Includes(outcome.value.msg, anchorCliVersion)
              /\ Includes(outcome.value.msg, cargoAnchorVersion)
              /\ ~(AnchorSpawn(config) \in {trace[i] : i \in CallsOf("spawn")})
              /\ NoCollaboratorCall

C1_Witness ==
    /\ config.idlGenerator = "anchor"
    /\ cargoAnchorVersion \in Versions
    /\ anchorCliVersion \in Versions
    /\ anchorCliVersion # cargoAnchorVersion
    /\ pc = "Threw"
    /\ outcome.state = "rejected"

\* C2: in handle, a null binVersion from the installer rejects the run even
\* though a path came back, and then nothing is spawned, enriched or
\* generated; whenever the binary is spawned, binVersion is a version.
C2_NullBinVersionAborts ==
    config.idlGenerator = "shank" =>
        /\ (pc # "AwaitRustbin" /\ rustbinPromise.state = "resolved"
            /\ rustbin.binVersion = NULL) =>
              /\ outcome = [state |-> "rejected",
                            value |-> InstallResolutionError("shank")]
              /\ ~Spawned
              /\ NumCalls("spawn") = 0
              /\ NoCollaboratorCall
        /\ Spawned => rustbin.binVersion \in Versions

C2_Witness ==
    /\ config.idlGenerator = "shank"
    /\ pc = "Threw"
    /\ rustbin.binVersion = NULL
    /\ rustbin.fullPathToBinary # UNSET
    /\ outcome.state = "rejected"

\* C3: when the generation child exits, enhanceIdl is called exactly once,
\* with the config as it is; generateTypeScriptSDK is called exactly once,
\* after enhanceIdl has completed and not before, with config.sdkDir as it is.
C3_OneEnrichThenOneGenerate ==
    /\ NumCalls("enhanceIdl") = (IF genChild = "exited" THEN 1 ELSE 0)
    /\ NumCalls("generateTypeScriptSDK") =
          (IF exitHandler \in {"generating", "done", "generateThrew"} THEN 1 ELSE 0)
    /\ \A i \in CallsOf("enhanceIdl") :
          /\ trace[i].args[1] = config
          /\ \A j \in CallsOf("generateTypeScriptSDK") : i < j
    /\ \A j \in CallsOf("generateTypeScriptSDK") :
          /\ trace[j].args[2] = config.sdkDir
          /\ idl # UNSET
          /\ trace[j].args[1] = idl
    /\ outcome.state = "resolved" =>
          NumCalls("enhanceIdl") = 1 /\ NumCalls("generateTypeScriptSDK") = 1

C3_Witness ==
    /\ genChild = "exited"
    /\ exitHandler = "done"
    /\ outcome.state = "resolved"
    /\ NumCalls("generateTypeScriptSDK") = 1

\* C4: once the run has been rejected nothing more is done in it: neither
\* enhanceIdl nor generateTypeScriptSDK is called in a rejected run, also
\* when the child emits 'exit' after 'error'.
C4_NoStepAfterAbort ==
    outcome.state = "rejected" => NoCollaboratorCall

\* C5: the exit code of the generation child decides nothing: whatever the
\* code, the exit is followed by the same enhanceIdl call, the run is
\* resolved once both collaborators are through, and a rejection comes from
\* an 'error' event only.
C5_ExitCodeIgnored ==
    genChild = "exited" =>
        /\ exitCode \in ExitCodes
        /\ {trace[i] : i \in CallsOf("enhanceIdl")} =
              {EnhanceCall(config, BinVersionArg, LibVersionArg)}
        /\ exitHandler \in {"enriching", "generating", "done",
                            "enrichThrew", "generateThrew"}
        /\ outcome.state = "rejected" =>
              /\ spawnErrno # UNSET
              /\ outcome.value = ErrnoException(spawnErrno, SpawnFile)
        /\ (exitHandler = "done" /\ spawnErrno = UNSET) => outcome.state = "resolved"

C5_Witness ==
    /\ exitCode \in {"1", NULL}
    /\ exitHandler = "done"
    /\ outcome.state = "resolved"

\* C6: getAnchorVersionInToml returns v for an entry that is the bare
\* string v and for an entry that is a table holding version v, whatever
\* else the table and the other dependencies hold.
C6_ResolverReturnsVersion ==
    (config.idlGenerator = "anchor" /\ cargoAnchorVersion # UNSET) =>
        LET entry == cargoTomlFile.deps[DependencyKey] IN
        /\ entry.type = "string" => cargoAnchorVersion = entry.str
        /\ entry.type = "table" =>
              \A v \in Versions :
                  <<"version", v>> \in entry.tbl => cargoAnchorVersion = v

C6_Witness ==
    /\ config.idlGenerator = "anchor"
    /\ cargoAnchorVersion = "0.26.0"
    /\ cargoTomlFile.deps[DependencyKey] =
          Tbl({<<"version", "0.26.0">>, <<"features", "cpi">>})
    /\ cargoTomlFile.deps["shank"] = Str("0.27.0")

\* C7: for a manifest without the dependency, the resolution fails with an
\* error that names the dependency by the key of the lookup and the path of
\* the manifest, and handleAnchor is rejected without a spawn.
C7_MissingDependencyNamed ==
    (/\ config.idlGenerator = "anchor"
     /\ pc = "Threw"
     /\ anchorCliVersion # UNSET
     /\ cargoTomlFile.kind = "toml"
     /\ cargoTomlFile.hasDeps
     /\ cargoTomlFile.deps[DependencyKey].type = "absent") =>
        /\ outcome.state = "rejected"
        /\ Includes(outcome.value.msg, DependencyKey)
        /\ ContainsSeq(outcome.value.msg, CargoTomlPath)
        /\ ~Spawned

\* an outcome that says the executable is missing
NotInstalled(v) ==
    \/ v = StringOf("Anchor is not installed!")
    \/ v.type = "Error" /\ v.code = "ENOENT"

\* C8: at each spawn (the probe, the generation child of either handler) a
\* failed spawn rejects the run, and the rejection says "executable missing"
\* exactly when the executable was not found.
C8_MissingExecutableDistinguishable ==
    (spawnErrno # UNSET /\ pc \in {"Threw", "InPromise"}) =>
        /\ outcome.state = "rejected"
        /\ NotInstalled(outcome.value) <=> (spawnErrno = "ENOENT")

C8_Witness ==
    /\ spawnErrno = "ENOENT"
    /\ pc = "InPromise"
    /\ genChild = "errored"
    /\ outcome.state = "rejected"

\* the two traces hold the same calls, with the same arguments, in the same order
SameCalls(t1, t2) ==
    /\ Len(t1) = Len(t2)
    /\ \A i \in 1..Len(t1) :
          /\ i <= Len(t2)
          /\ t1[i].fn = t2[i].fn
          /\ t1[i].args = t2[i].args

\* C9: a second run on an unedited manifest with a matching installed
\* version makes the calls of the first run, in the same order: nothing of
\* the first run is kept that would shorten or change the second.
C9_SecondRunSameCalls ==
    (/\ run >= 2
     /\ ~manifestEdited
     /\ prevOutcome.state = "resolved"
     /\ outcome.state = "resolved") =>
        SameCalls(prevTrace, trace)

C9_Witness ==
    /\ run = 2
    /\ ~manifestEdited
    /\ prevOutcome.state = "resolved"
    /\ outcome.state = "resolved"
    /\ Len(trace) >= 4

\* C10: confirmAutoMessageLog approves whatever it is given, a null
\* binVersion included, so the installer always goes on to install.
C10_ConfirmAlwaysApproves ==
    /\ \A i \in 1..Len(confirmCalls) : confirmCalls[i][2] = "true"
    /\ (confirmCalls # <<>> /\ rustbinPhase = "done") =>
          rustbin.binVersion \in {rustbin.libVersion, NULL}

C10_Witness ==
    /\ confirmCalls # <<>>
    /\ confirmCalls[1][1].binVersion = NULL
    /\ confirmCalls[1][2] = "true"
    /\ rustbinPhase = "done"

\* C11: every run settles: when nothing more can happen in a run its
\* promise is resolved or rejected, and a failure of enhanceIdl or of
\* generateTypeScriptSDK reaches the caller as a rejection.
C11_RunSettles ==
    /\ (~ENABLED Next) => outcome.state \in {"resolved", "rejected"}
    /\ exitHandler \in {"enrichThrew", "generateThrew"} => outcome.state = "rejected"

\* the first place where text holds the tool name followed by x.y.z is i
FirstMatchAt(text, i) ==
    /\ i \in 1..(Len(text) - 1)
    /\ text[i] = "anchor-cli "
    /\ text[i + 1] \in Versions
    /\ \A k \in 1..(i - 1) : ~(text[k] = "anchor-cli " /\ text[k + 1] \in Versions)

C12_ProbeState ==
    /\ anchorCliVersion # UNSET =>
          /\ probeCode = "0"
          /\ probeChild = "closed"
          /\ anchorCliVersion \in Versions
          /\ probePromise = [state |-> "resolved", value |-> StringOf(anchorCliVersion)]
    /\ (config.idlGenerator = "anchor" /\ pc = "Threw"
        /\ probePromise.state = "rejected") =>
          /\ outcome = probePromise
          /\ NumCalls("readFile") = 0
          /\ cargoAnchorVersion = UNSET
          /\ ~Spawned

C12_ProbeCloseStep ==
    (probeChild = "running" /\ probeChild' = "closed") =>
        /\ probePromise'.state = "resolved" =>
              /\ probeCode' = "0"
              /\ \E i \in 1..Len(stdoutData) :
                    /\ FirstMatchAt(stdoutData, i)
                    /\ probePromise'.value = StringOf(stdoutData[i + 1])
        /\ (probeCode' = "0" /\ ~\E i \in 1..Len(stdoutData) : FirstMatchAt(stdoutData, i)) =>
              probePromise' = [state |-> "rejected",
                               value |-> StringOf("Anchor version matching failed")]

\* C12: getAnchorCommandVersion yields a version only when the probe closes
\* with code 0 and its output holds `anchor-cli x.y.z`, and then yields that
\* x.y.z; when the output does not match the probe is rejected, and
\* handleAnchor is rejected before the manifest is read and before a spawn.
C12_ProbeYieldsMatchedVersion ==
    [](C12_ProbeState) /\ [][C12_ProbeCloseStep]_vars

C12_Witness ==
    /\ anchorCliVersion = "0.26.0"
    /\ probeCode = "0"
    /\ pc = "AwaitToml"

\* the steps of the run that are under way
StepsUnderWay ==
    (IF probeChild = "running" THEN {"probe"} ELSE {})
    \cup (IF pc = "AwaitToml" THEN {"manifest"} ELSE {})
    \cup (IF rustbinPhase \in {"checking", "confirmed"} THEN {"install"} ELSE {})
    \cup (IF genChild = "running" THEN {"process"} ELSE {})
    \cup (IF exitHandler = "enriching" THEN {"enrich"} ELSE {})
    \cup (IF exitHandler = "generating" THEN {"generate"} ELSE {})

\* C13 (amended): within a run at most one step is under way: the probe has
\* closed before the manifest is read, the manifest is resolved (the
\* installer is through) before the spawn, enhanceIdl begins only after the
\* generation child's 'exit', and generateTypeScriptSDK only after
\* enhanceIdl has completed. The child's output may still be streaming when
\* enhanceIdl begins.
C13_StepsInOrder ==
    /\ Cardinality(StepsUnderWay) <= 1
    /\ pc = "AwaitToml" => probeChild = "closed"
    /\ Spawned =>
          IF config.idlGenerator = "anchor"
          THEN probeChild = "closed" /\ cargoAnchorVersion # UNSET /\ pc = "InPromise"
          ELSE rustbinPhase = "done" /\ rustbin # NoRustbin /\ pc = "InPromise"
    /\ NumCalls("enhanceIdl") > 0 => genChild = "exited"
    /\ NumCalls("generateTypeScriptSDK") > 0 =>
          idl # UNSET /\ exitHandler \in {"generating", "done", "generateThrew"}

C13_Witness ==
    /\ exitHandler = "enriching"
    /\ genChild = "exited"
    /\ genStdio = "open"
    /\ genWrote

\* C13: as above, and enhanceIdl begins only when the child's output
\* streaming has finished as well.
C13_StepsInOrderStreamingDone ==
    /\ C13_StepsInOrder
    /\ exitHandler # "none" => genStdio = "closed"

\* the generateTypeScriptSDK call of a run whose config is cfg and whose
\* remaining-accounts argument is flag
ExpectedGenerateCall(cfg, flag) ==
    [fn |-> "generateTypeScriptSDK",
     args |-> <<idl, cfg.sdkDir, prettierConfig, cfg.typeAliases, cfg.serializers,
                flag>>]

ShankEnhanceAsInstalled ==
    \A i \in CallsOf("enhanceIdl") :
        /\ trace[i].args = <<config, rustbin.binVersion, rustbin.libVersion>>
        /\ rustbin.binVersion \in Versions
        /\ rustbin.libVersion \in Versions

\* C14 (amended): handle calls generateTypeScriptSDK with the enriched IDL,
\* config.sdkDir, the formatting options and config's type aliases and
\* serializers as handleAnchor does, but with the remaining-accounts flag
\* false whatever the config holds; enhanceIdl gets the installer's
\* binVersion and libVersion.
C14_ShankGenerateCall ==
    config.idlGenerator = "shank" =>
        /\ ShankEnhanceAsInstalled
        /\ \A j \in CallsOf("generateTypeScriptSDK") :
              trace[j] = ExpectedGenerateCall(config, "false")

C14_Witness ==
    /\ config.idlGenerator = "shank"
    /\ config.anchorRemainingAccounts = "true"
    /\ NumCalls("generateTypeScriptSDK") = 1

\* C14: handle calls generateTypeScriptSDK as handleAnchor does, the
\* remaining-accounts flag taken from the config as well.
C14_ShankGenerateCallFromConfig ==
    config.idlGenerator = "shank" =>
        /\ ShankEnhanceAsInstalled
        /\ \A j \in CallsOf("generateTypeScriptSDK") :
              trace[j] = ExpectedGenerateCall(config, config.anchorRemainingAccounts)

\* C15: the promise is resolved only when the pipeline is through: in a
\* resolved run the child has exited, enhanceIdl has completed and
\* generateTypeScriptSDK has completed.
C15_ResolvedOnlyWhenDone ==
    outcome.state = "resolved" =>
        /\ genChild = "exited"
        /\ exitCode # UNSET
        /\ idl # UNSET
        /\ exitHandler = "done"
        /\ StepsUnderWay = {}
        /\ trace[Len(trace)].fn = "generateTypeScriptSDK"

C15_Witness ==
    /\ outcome.state = "resolved"
    /\ exitHandler = "done"
    /\ run = 1
    /\ genStdio = "closed"

\* the anchor-lang entry of the manifest is a table without a version
TableWithoutVersion ==
    /\ cargoTomlFile.kind = "toml"
    /\ cargoTomlFile.hasDeps
    /\ cargoTomlFile.deps[DependencyKey].type = "table"
    /\ ~\E p \in cargoTomlFile.deps[DependencyKey].tbl : p[1] = "version"

\* C16: for an anchor-lang table without a version no default is taken:
\* the resolved value is undefined, equal to no probed version, and
\* handleAnchor is rejected at the comparison without a spawn.
C16_NoDefaultVersion ==
    (config.idlGenerator = "anchor" /\ TableWithoutVersion) =>
        /\ ~Spawned
        /\ NumCalls("spawn") <= 1
        /\ cargoAnchorVersion # UNSET =>
              /\ cargoAnchorVersion = UNDEFINED
              /\ pc = "Threw"
              /\ outcome = [state |-> "rejected",
                            value |-> MismatchError(anchorCliVersion, UNDEFINED)]

C16_Witness ==
    /\ config.idlGenerator = "anchor"
    /\ TableWithoutVersion
    /\ anchorCliVersion \in Versions
    /\ cargoAnchorVersion = UNDEFINED
    /\ outcome.state = "rejected"

====
